---- MODULE Spec2Model ----
(***************************************************************************)
(* Model of gen.py: the three image operations square(), mask() and        *)
(* highlight().  One behaviour is one call of one operation on one image   *)
(* with one list of detections; the state is the call's inputs, the part   *)
(* of the file system the call touches, and the call's local variables.    *)
(*                                                                         *)
(* Numbers.  Detection boxes and image sizes are integers.  A padding      *)
(* ratio is the rational num/den; a padded box of mask()/highlight() is    *)
(* kept scaled by den, so that x0 - box_width * padding_ratio is exact.    *)
(* On the inputs modelled here Python's float arithmetic gives the same    *)
(* int(), the same truncations and the same comparisons as the exact       *)
(* rationals.                                                              *)
(*                                                                         *)
(* Pillow.  crop() of a rectangle with right < left or lower < upper and   *)
(* ImageDraw.rectangle() with x1 < x0 or y1 < y0 raise ValueError.  A crop *)
(* of zero width is accepted by crop(); whether the following resize()     *)
(* raises or yields an image is left open, both outcomes are modelled.     *)
(* rectangle() truncates its coordinates to integers and paints the pixels *)
(* from (x0, y0) to (x1, y1) inclusive, clipped to the image.              *)
(***************************************************************************)
EXTENDS Integers, Sequences, FiniteSets, TLC

VARIABLES
    op,             \* the operation called: "square" | "mask" | "highlight"
    type,           \* the detector category passed in
    img_path,       \* [dir, name]: the source image
    img_size,       \* [w, h] of the source image
    padding_ratio,  \* [num, den]
    with_mask,      \* highlight(): draw the outlines over the composite
    results,        \* the detector's answer: a sequence of boxes
    files,          \* the paths that exist on disk
    dir_exists,     \* output_dir.exists()
    pc,             \* "start" | "loop" | "returned" | "raised"
    i,              \* number of detections the loop has taken
    result_paths,   \* square(): the list being built
    crop,           \* square(): the rectangles passed to img.crop, in order
    drawn,          \* mask()/highlight(): the padded boxes passed to rectangle()
    boxes,          \* highlight(): the list of padded boxes it keeps
    mask_px,        \* highlight(): the pixels of the mask set to 255
    highlighted,    \* highlight(): the pixels of the composite taken from the source
    outlined,       \* highlight(): the boxes outlined over the composite
    wrote,          \* the paths saved by this call, in order
    ret,            \* the value returned
    err             \* the exception raised, "" if none

vars == <<op, type, img_path, img_size, padding_ratio, with_mask, results, files,
          dir_exists, pc, i, result_paths, crop, drawn, boxes, mask_px,
          highlighted, outlined, wrote, ret, err>>

inputs == <<op, type, img_path, img_size, padding_ratio, with_mask, results>>

-----------------------------------------------------------------------------
(* Bounds of the model *)

\* image sides of the geometry scenarios are 1..MaxDim, box coordinates
\* run from -1 to MaxDim + 1
MaxDim == 3

\* longest detection list of the control-flow scenarios
MaxDet == 2

-----------------------------------------------------------------------------
(* Arithmetic helpers *)

Max(a, b) == IF a >= b THEN a ELSE b

Min(a, b) == IF a <= b THEN a ELSE b

Box(a, b, c, d) == [x0 |-> a, y0 |-> b, x1 |-> c, y1 |-> d]

Ratio(n, d) == [num |-> n, den |-> d]

Range(s) == {s[k] : k \in 1..Len(s)}

-----------------------------------------------------------------------------
(* The detector registry *)

GenSquareType ==
    {"head", "eyes", "faces", "censors", "nudenet", "mongo", "opai", "armpits", "feet"}

\* detector.get(type) is None
Unsupported(t) == t \notin GenSquareType

\* a variant that never sees an empty list
NoResultsNever(r) == FALSE

\* "if not results"
NoResults(r) == r = <<>>

-----------------------------------------------------------------------------
(* Paths.  A file name is a sequence of tokens; "." is the dot. *)

OutputDir == "out"

LastDot(name) ==
    IF \E k \in 1..Len(name) : name[k] = "."
    THEN CHOOSE k \in 1..Len(name) :
             name[k] = "." /\ \A m \in (k + 1)..Len(name) : name[m] # "."
    ELSE 0

\* Path.stem: the name without its last suffix; a leading or a trailing dot
\* starts no suffix
Stem(name) ==
    LET d == LastDot(name)
    IN  IF 1 < d /\ d < Len(name) THEN SubSeq(name, 1, d - 1) ELSE name

\* output_dir / f"{img_path.stem}_{type}_{suffix}.png"
OutputPath(src, t, suffix) ==
    [dir |-> OutputDir, name |-> Stem(src.name) \o <<"_", t, "_", suffix, ".", "png">>]

SquarePath(src, t, k) == OutputPath(src, t, ToString(k))

MaskPath(src, t) == OutputPath(src, t, "marked")

HighlightPath(src, t) == OutputPath(src, t, "highlighted")

-----------------------------------------------------------------------------
(* square(): the crop rectangle of one detection *)

CenterOf(a, b) == (a + b) \div 2

BaseSize(b) == Max(b.x1 - b.x0, b.y1 - b.y0)

\* int(base_size * (1 + padding_ratio * 2))
ExpandedSize(b, p) == (BaseSize(b) * (p.den + 2 * p.num)) \div p.den

HalfSize(b, p) == ExpandedSize(b, p) \div 2

\* a variant that keeps the whole centred extent when it fits in the image
ClampedExtentKeepsSide(c, half, dim) == Min(dim, 2 * half)

\* crop_x1 - crop_x0 on one axis: the centred extent clamped to [0, dim]
ClampedExtent(c, half, dim) == Min(dim, c + half) - Max(0, c - half)

SquareSize(b, p, sz) ==
    Min(ClampedExtent(CenterOf(b.x0, b.x1), HalfSize(b, p), sz.w),
        ClampedExtent(CenterOf(b.y0, b.y1), HalfSize(b, p), sz.h))

\* a variant without the upper clamp
CropOriginNoUpper(c, s, dim) == Max(0, c - (s \div 2))

\* max(0, min(center - square_size // 2, dim - square_size))
CropOrigin(c, s, dim) == Max(0, Min(c - (s \div 2), dim - s))

CropRect(b, p, sz) ==
    LET s  == SquareSize(b, p, sz)
        ox == CropOrigin(CenterOf(b.x0, b.x1), s, sz.w)
        oy == CropOrigin(CenterOf(b.y0, b.y1), s, sz.h)
    IN  Box(ox, oy, ox + s, oy + s)

-----------------------------------------------------------------------------
(* mask() and highlight(): the padded box, scaled by padding_ratio.den *)

\* a variant that leaves the low edge where the padding put it
ClampLowNone(v) == v

\* max(0, x0 - pad)
ClampLow(v) == Max(0, v)

\* min(img_width, x1 + pad)
ClampHigh(v, dim) == Min(dim, v)

PaddedBox(b, p, sz) ==
    LET pad_w == (b.x1 - b.x0) * p.num
        pad_h == (b.y1 - b.y0) * p.num
    IN  [x0 |-> ClampLow(b.x0 * p.den - pad_w),
         y0 |-> ClampLow(b.y0 * p.den - pad_h),
         x1 |-> ClampHigh(b.x1 * p.den + pad_w, sz.w * p.den),
         y1 |-> ClampHigh(b.y1 * p.den + pad_h, sz.h * p.den),
         den |-> p.den]

\* ImageDraw.rectangle refuses these coordinates
Inverted(nb) == nb.x1 < nb.x0 \/ nb.y1 < nb.y0

Pixels(sz) == (0..(sz.w - 1)) \X (0..(sz.h - 1))

\* the pixels rectangle([(nx0, ny0), (nx1, ny1)]) paints
RectPixels(nb, sz) ==
    {px \in Pixels(sz) :
        /\ nb.x0 \div nb.den <= px[1] /\ px[1] <= nb.x1 \div nb.den
        /\ nb.y0 \div nb.den <= px[2] /\ px[2] <= nb.y1 \div nb.den}

\* a variant that paints on a fresh mask each time
FillRectFresh(m, nb, sz) == RectPixels(nb, sz)

\* mask_draw.rectangle(..., fill=255) on the mask built so far
FillRect(m, nb, sz) == m \cup RectPixels(nb, sz)

-----------------------------------------------------------------------------
(* Return values and exceptions *)

NoneRet == [kind |-> "None", paths |-> <<>>]

ListRet(ps) == [kind |-> "list", paths |-> ps]

PathRet(path) == [kind |-> "path", paths |-> <<path>>]

Unset == [kind |-> "unset", paths |-> <<>>]

\* a variant that answers with an empty list
SquareNoDetectionsEmptyList == ListRet(<<>>)

\* square(): "if not results: ... return None"
SquareNoDetections == NoneRet

\* mask(), highlight(): "return img_path" of the early exits
Untouched(src) == PathRet(src)

-----------------------------------------------------------------------------
(* The inputs of the modelled calls *)

Ops == {"square", "mask", "highlight"}

PadRatios == {Ratio(0, 1), Ratio(1, 5), Ratio(3, 10), Ratio(1, 1)}

Coords == (0 - 1)..(MaxDim + 1)

\* every box with x0 < x1 and y0 < y1, inside the image or not
GeomBoxes ==
    {Box(a, b, c, d) : <<a, b, c, d>> \in
        {t \in Coords \X Coords \X Coords \X Coords : t[1] < t[3] /\ t[2] < t[4]}}

GeomSizes == {[w |-> a, h |-> b] : <<a, b>> \in (1..MaxDim) \X (1..MaxDim)}

PlainSource == [dir |-> "in", name |-> <<"a", ".", "png">>]

\* a source without a suffix, and a source that is an earlier output
Sources ==
    {PlainSource,
     [dir |-> "in", name |-> <<"a">>],
     [dir |-> OutputDir, name |-> <<"a", "_", "head", "_", "marked", ".", "png">>]}

Scenario(o, t, src, sz, p, wm, rs, de) ==
    [op |-> o, type |-> t, img_path |-> src, img_size |-> sz, padding_ratio |-> p,
     with_mask |-> wm, results |-> rs, dir_exists |-> de]

\* one detection, every geometry
GeomScenarios ==
    {Scenario(o, "head", PlainSource, sz, p, FALSE, <<b>>, TRUE) :
        <<o, sz, p, b>> \in Ops \X GeomSizes \X PadRatios \X GeomBoxes}

FlowSize == [w |-> 4, h |-> 3]

FlowBoxes == {Box(0, 0, 1, 1), Box(0, 0, 2, 2), Box(1, 1, 3, 3), Box(3, 0, 4, 3)}

RECURSIVE Lists(_, _)
Lists(S, n) ==
    IF n = 0 THEN {<<>>}
    ELSE LET shorter == Lists(S, n - 1)
         IN  shorter \cup {Append(l, b) : <<l, b>> \in shorter \X S}

\* zero to MaxDet detections, every category, every state of the output directory
FlowScenarios ==
    {Scenario(o, t, src, FlowSize, p, wm, rs, de) :
        <<o, t, src, p, wm, rs, de>> \in
            {u \in Ops \X (GenSquareType \cup {"tail"}) \X Sources
                       \X {Ratio(0, 1), Ratio(3, 10)} \X BOOLEAN
                       \X Lists(FlowBoxes, MaxDet) \X BOOLEAN :
                /\ u[5] => u[1] = "highlight"
                /\ u[3].dir = OutputDir => u[7]}}

\* the two worked examples of the specification's section 8
ExampleScenarios ==
    {Scenario("square", "head", PlainSource, [w |-> 100, h |-> 100], Ratio(3, 10),
              FALSE, <<Box(0, 0, 50, 50)>>, TRUE),
     Scenario("square", "faces", PlainSource, [w |-> 1000, h |-> 800], Ratio(3, 10),
              FALSE, <<Box(400, 300, 600, 500)>>, TRUE)}

Scenarios == GeomScenarios \cup FlowScenarios \cup ExampleScenarios

Init ==
    \E s \in Scenarios :
        /\ op = s.op
        /\ type = s.type
        /\ img_path = s.img_path
        /\ img_size = s.img_size
        /\ padding_ratio = s.padding_ratio
        /\ with_mask = s.with_mask
        /\ results = s.results
        /\ dir_exists = s.dir_exists
        /\ files = {s.img_path}
        /\ pc = "start"
        /\ i = 0
        /\ result_paths = <<>>
        /\ crop = <<>>
        /\ drawn = <<>>
        /\ boxes = <<>>
        /\ mask_px = {}
        /\ highlighted = {}
        /\ outlined = <<>>
        /\ wrote = <<>>
        /\ ret = Unset
        /\ err = ""

-----------------------------------------------------------------------------
(* Steps shared by the operations *)

Return(v) ==
    /\ pc' = "returned"
    /\ ret' = v

Raise(e) ==
    /\ pc' = "raised"
    /\ err' = e

\* image.save(path): fails when the directory of the path does not exist
Save(path) ==
    IF dir_exists
    THEN /\ files' = files \cup {path}
         /\ wrote' = Append(wrote, path)
    ELSE /\ Raise("FileNotFoundError")
         /\ UNCHANGED <<files, wrote>>

\* "if not output_dir.exists(): output_dir.mkdir(parents=True, exist_ok=True)"
MkdirIfMissing == dir_exists' = TRUE

-----------------------------------------------------------------------------
(* square() *)

\* lines 52-60: the early exits, then the output directory
SquareStart ==
    /\ op = "square" /\ pc = "start"
    /\ IF Unsupported(type)
       THEN Return(NoneRet) /\ UNCHANGED dir_exists
       ELSE IF NoResults(results)
       THEN Return(SquareNoDetections) /\ UNCHANGED dir_exists
       ELSE pc' = "loop" /\ MkdirIfMissing /\ UNCHANGED ret
    /\ UNCHANGED <<inputs, files, i, result_paths, crop, drawn, boxes, mask_px,
                   highlighted, outlined, wrote, err>>

\* what crop(), resize() and save() do with a square of side s
CropOutcomes(s) ==
    IF s < 0 THEN {"ValueError"}
    ELSE IF s = 0 THEN {"ValueError", "saved"}
    ELSE {"saved"}

\* lines 63-98: one pass of the loop; there is no test of square_size
SquareIter ==
    /\ op = "square" /\ pc = "loop" /\ i < Len(results)
    /\ LET b    == results[i + 1]
           s    == SquareSize(b, padding_ratio, img_size)
           path == SquarePath(img_path, type, i)
       IN  /\ crop' = Append(crop, CropRect(b, padding_ratio, img_size))
           /\ \E outcome \in CropOutcomes(s) :
                IF outcome = "saved"
                THEN /\ files' = files \cup {path}
                     /\ wrote' = Append(wrote, path)
                     /\ result_paths' = Append(result_paths, path)
                     /\ i' = i + 1
                     /\ UNCHANGED <<pc, err>>
                ELSE /\ Raise(outcome)
                     /\ UNCHANGED <<files, wrote, result_paths, i>>
    /\ UNCHANGED <<inputs, dir_exists, drawn, boxes, mask_px, highlighted, outlined,
                   ret>>

\* lines 99-102
SquareEnd ==
    /\ op = "square" /\ pc = "loop" /\ i = Len(results)
    /\ Return(IF result_paths = <<>> THEN NoneRet ELSE ListRet(result_paths))
    /\ UNCHANGED <<inputs, files, dir_exists, i, result_paths, crop, drawn, boxes,
                   mask_px, highlighted, outlined, wrote, err>>

-----------------------------------------------------------------------------
(* mask() *)

\* lines 114-123
MaskStart ==
    /\ op = "mask" /\ pc = "start"
    /\ IF Unsupported(type) \/ NoResults(results)
       THEN Return(Untouched(img_path))
       ELSE pc' = "loop" /\ UNCHANGED ret
    /\ UNCHANGED <<inputs, files, dir_exists, i, result_paths, crop, drawn, boxes,
                   mask_px, highlighted, outlined, wrote, err>>

\* lines 125-136: one pass of the loop
MaskIter ==
    /\ op = "mask" /\ pc = "loop" /\ i < Len(results)
    /\ LET nb == PaddedBox(results[i + 1], padding_ratio, img_size)
       IN  /\ drawn' = Append(drawn, nb)
           /\ IF Inverted(nb)
              THEN Raise("ValueError") /\ UNCHANGED i
              ELSE i' = i + 1 /\ UNCHANGED <<pc, err>>
    /\ UNCHANGED <<inputs, files, dir_exists, result_paths, crop, boxes, mask_px,
                   highlighted, outlined, wrote, ret>>

\* lines 137-140: the image is saved without a look at output_dir
MaskEnd ==
    /\ op = "mask" /\ pc = "loop" /\ i = Len(results)
    /\ Save(MaskPath(img_path, type))
    /\ IF dir_exists
       THEN Return(PathRet(MaskPath(img_path, type))) /\ UNCHANGED err
       ELSE UNCHANGED ret
    /\ UNCHANGED <<inputs, dir_exists, i, result_paths, crop, drawn, boxes, mask_px,
                   highlighted, outlined>>

-----------------------------------------------------------------------------
(* highlight() *)

\* lines 153-166
HighlightStart ==
    /\ op = "highlight" /\ pc = "start"
    /\ IF Unsupported(type) \/ NoResults(results)
       THEN Return(Untouched(img_path))
       ELSE pc' = "loop" /\ UNCHANGED ret
    /\ UNCHANGED <<inputs, files, dir_exists, i, result_paths, crop, drawn, boxes,
                   mask_px, highlighted, outlined, wrote, err>>

\* lines 167-179: one pass of the loop
HighlightIter ==
    /\ op = "highlight" /\ pc = "loop" /\ i < Len(results)
    /\ LET nb == PaddedBox(results[i + 1], padding_ratio, img_size)
       IN  /\ drawn' = Append(drawn, nb)
           /\ IF Inverted(nb)
              THEN /\ Raise("ValueError")
                   /\ UNCHANGED <<i, boxes, mask_px>>
              ELSE /\ mask_px' = FillRect(mask_px, nb, img_size)
                   /\ boxes' = Append(boxes, nb)
                   /\ i' = i + 1
                   /\ UNCHANGED <<pc, err>>
    /\ UNCHANGED <<inputs, files, dir_exists, result_paths, crop, highlighted, outlined,
                   wrote, ret>>

\* Image.composite(image, blurred, mask): the source where the mask is 255
Composite(m) == m

\* lines 181-194
HighlightEnd ==
    /\ op = "highlight" /\ pc = "loop" /\ i = Len(results)
    /\ highlighted' = Composite(mask_px)
    /\ outlined' = IF with_mask /\ boxes # <<>> THEN boxes ELSE <<>>
    /\ MkdirIfMissing
    /\ files' = files \cup {HighlightPath(img_path, type)}
    /\ wrote' = Append(wrote, HighlightPath(img_path, type))
    /\ Return(PathRet(HighlightPath(img_path, type)))
    /\ UNCHANGED <<inputs, i, result_paths, crop, drawn, boxes, mask_px, err>>

-----------------------------------------------------------------------------

Next ==
    \/ SquareStart
    \/ SquareIter
    \/ SquareEnd
    \/ MaskStart
    \/ MaskIter
    \/ MaskEnd
    \/ HighlightStart
    \/ HighlightIter
    \/ HighlightEnd

Spec == Init /\ [][Next]_vars

-----------------------------------------------------------------------------
(* Properties of square()'s crop rectangle *)

Side(r) == r.x1 - r.x0

InsideImage(b, sz) ==
    /\ 0 <= b.x0 /\ b.x0 < b.x1 /\ b.x1 <= sz.w
    /\ 0 <= b.y0 /\ b.y0 < b.y1 /\ b.y1 <= sz.h

\* the detections square() has passed to crop so far
Cropped == IF op = "square" THEN 1..Len(crop) ELSE {}

\* a positive square wholly inside the image
ValidSquare(r, sz) ==
    /\ r.x1 - r.x0 = r.y1 - r.y0
    /\ r.x1 - r.x0 > 0
    /\ 0 <= r.x0 /\ r.x0 < r.x1 /\ r.x1 <= sz.w
    /\ 0 <= r.y0 /\ r.y0 < r.y1 /\ r.y1 <= sz.h

\* C1 (as stated): every rectangle square() passes to crop is a square of
\* positive side that lies wholly inside the image, for every box with
\* x0 < x1 and y0 < y1, clamped to the image or not.
C1Original == \A k \in Cropped : ValidSquare(crop[k], img_size)

\* base_size * (1 + 2 * padding_ratio), scaled by the ratio's denominator
ScaledExpanded(b, p) ==
    (IF b.x1 - b.x0 >= b.y1 - b.y0 THEN b.x1 - b.x0 ELSE b.y1 - b.y0) * (p.den + 2 * p.num)

\* clamp(v, lo, hi)
Clamp(v, lo, hi) == IF v < lo THEN lo ELSE IF v > hi THEN hi ELSE v

\* C2 (as stated): for a box fully inside the image the side of the crop
\* square equals clamp(baseSize*(1+2*paddingRatio), 1, min(width, height))
\* and the crop square is contained in the image.
C2Original ==
    \A k \in Cropped :
        InsideImage(results[k], img_size) =>
            /\ Side(crop[k]) * padding_ratio.den =
                   Clamp(ScaledExpanded(results[k], padding_ratio),
                         padding_ratio.den,
                         Min(img_size.w, img_size.h) * padding_ratio.den)
            /\ 0 <= crop[k].x0 /\ crop[k].x1 <= img_size.w
            /\ 0 <= crop[k].y0 /\ crop[k].y1 <= img_size.h

\* the smallest of seven numbers
Least(S) == CHOOSE m \in S : \A n \in S : m <= n

\* C2 (amended): for a box fully inside the image, with E the integer part
\* of baseSize*(1+2*paddingRatio), h = E div 2 and (cx, cy) the floored
\* centre of the box, the side of the crop square is the least of 2h,
\* cx + h, width - cx + h, width, cy + h, height - cy + h and height; it
\* lies between 0 and min(E, width, height), 0 included, and the crop
\* rectangle is a square within the bounds of the image.
C2Amended ==
    \A k \in Cropped :
        InsideImage(results[k], img_size) =>
            LET b  == results[k]
                E  == ScaledExpanded(b, padding_ratio) \div padding_ratio.den
                h  == E \div 2
                cx == (b.x0 + b.x1) \div 2
                cy == (b.y0 + b.y1) \div 2
                r  == crop[k]
            IN  /\ Side(r) = Least({2 * h, cx + h, img_size.w - cx + h, img_size.w,
                                    cy + h, img_size.h - cy + h, img_size.h})
                /\ 0 <= Side(r) /\ Side(r) <= E
                /\ Side(r) <= img_size.w /\ Side(r) <= img_size.h
                /\ r.y1 - r.y0 = Side(r)
                /\ 0 <= r.x0 /\ r.x0 <= r.x1 /\ r.x1 <= img_size.w
                /\ 0 <= r.y0 /\ r.y0 <= r.y1 /\ r.y1 <= img_size.h

\* C2 witness: a box inside the image whose crop has been taken and whose
\* side is not the clamped expanded size
C2Witness ==
    \E k \in Cropped :
        /\ InsideImage(results[k], img_size)
        /\ Side(crop[k]) > 0
        /\ Side(crop[k]) * padding_ratio.den #
               Clamp(ScaledExpanded(results[k], padding_ratio),
                     padding_ratio.den,
                     Min(img_size.w, img_size.h) * padding_ratio.den)

\* the corner example of the specification
CornerExample ==
    /\ op = "square"
    /\ img_size = [w |-> 100, h |-> 100]
    /\ padding_ratio = Ratio(3, 10)
    /\ results = <<Box(0, 0, 50, 50)>>

\* the centred square of side 2h overflows an edge of the image
Overflows(b, p, sz) ==
    LET h  == (ScaledExpanded(b, p) \div p.den) \div 2
        cx == (b.x0 + b.x1) \div 2
        cy == (b.y0 + b.y1) \div 2
    IN  cx - h < 0 \/ cx + h > sz.w \/ cy - h < 0 \/ cy + h > sz.h

\* the origin on one axis, case by case
OriginByCases(c, s, dim) ==
    IF c - (s \div 2) < 0 THEN 0
    ELSE IF c - (s \div 2) <= dim - s THEN c - (s \div 2)
    ELSE IF dim - s < 0 THEN 0
    ELSE dim - s

\* C3 (as stated): re-centring keeps the full expanded side: the corner
\* example (box (0,0,50,50), image 100x100, ratio 0.3) gives an 80x80 crop
\* at (0,0); the origin on each axis is
\* clamp(center - squareSize/2, 0, dimension - squareSize).
C3Original ==
    \A k \in Cropped :
        LET b == results[k]
            r == crop[k]
        IN  /\ CornerExample => r = Box(0, 0, 80, 80)
            /\ r.x0 = OriginByCases((b.x0 + b.x1) \div 2, Side(r), img_size.w)
            /\ r.y0 = OriginByCases((b.y0 + b.y1) \div 2, Side(r), img_size.h)

\* C3 (amended): when the centred square overflows an edge the side is
\* shrunk below the expanded side, not kept; the corner example gives a
\* 65x65 crop at (0,0); the origin on each axis is
\* max(0, min(center - squareSize div 2, dimension - squareSize)) with
\* center = (x0 + x1) div 2.
C3Amended ==
    \A k \in Cropped :
        LET b == results[k]
            E == ScaledExpanded(b, padding_ratio) \div padding_ratio.den
            r == crop[k]
        IN  /\ CornerExample => r = Box(0, 0, 65, 65)
            /\ Overflows(b, padding_ratio, img_size) => Side(r) < E
            /\ r.x0 = OriginByCases((b.x0 + b.x1) \div 2, Side(r), img_size.w)
            /\ r.y0 = OriginByCases((b.y0 + b.y1) \div 2, Side(r), img_size.h)

\* C3 witness: the corner example has been cropped
C3Witness == CornerExample /\ Len(crop) = 1 /\ pc = "returned"

-----------------------------------------------------------------------------
(* Properties of the padded boxes of mask() and highlight() *)

\* the detections whose padded box has been passed to rectangle()
Drawn == IF op \in {"mask", "highlight"} THEN 1..Len(drawn) ELSE {}

\* C7 (as stated): every padded box that mask() draws or highlight() fills
\* satisfies 0 <= nx0 < nx1 <= width and 0 <= ny0 < ny1 <= height, for every
\* box with x0 < x1 and y0 < y1, inside the image or not.
C7Original ==
    \A k \in Drawn :
        /\ 0 <= drawn[k].x0 /\ drawn[k].x0 < drawn[k].x1
        /\ drawn[k].x1 <= img_size.w * drawn[k].den
        /\ 0 <= drawn[k].y0 /\ drawn[k].y0 < drawn[k].y1
        /\ drawn[k].y1 <= img_size.h * drawn[k].den

\* a raw box as a padded box of denominator 1
Raw(b) == [x0 |-> b.x0, y0 |-> b.y0, x1 |-> b.x1, y1 |-> b.y1, den |-> 1]

ZeroPadding == padding_ratio.num = 0 /\ padding_ratio.den = 1

\* C8 (as stated): with padding ratio 0 the box drawn or filled for each
\* detection is exactly the raw detection box.
C8Original ==
    ZeroPadding => \A k \in Drawn : drawn[k] = Raw(results[k])

\* C8 (amended): with padding ratio 0 the box drawn or filled for each
\* detection is the raw box clamped to the image, (max(0,x0), max(0,y0),
\* min(width,x1), min(height,y1)); it is the raw box exactly when the raw
\* box has x0 >= 0, y0 >= 0, x1 <= width and y1 <= height.
C8Amended ==
    ZeroPadding =>
        \A k \in Drawn :
            LET b == results[k]
            IN  /\ drawn[k].x0 = (IF b.x0 < 0 THEN 0 ELSE b.x0)
                /\ drawn[k].y0 = (IF b.y0 < 0 THEN 0 ELSE b.y0)
                /\ drawn[k].x1 = (IF b.x1 > img_size.w THEN img_size.w ELSE b.x1)
                /\ drawn[k].y1 = (IF b.y1 > img_size.h THEN img_size.h ELSE b.y1)
                /\ drawn[k].den = 1
                /\ drawn[k] = Raw(b) <=> InsideImage(b, img_size)

\* C8 witness: a box that reaches over the image's low and high edges has
\* been drawn with padding ratio 0
C8Witness ==
    /\ ZeroPadding
    /\ \E k \in Drawn :
           /\ results[k].x0 < 0 /\ results[k].x1 > img_size.w
           /\ drawn[k] # Raw(results[k])

-----------------------------------------------------------------------------
(* highlight(): the sharp region *)

\* the pixel's cell [px, px+1) x [py, py+1) meets the closed padded box
InsidePadded(px, nb) ==
    /\ (px[1] + 1) * nb.den > nb.x0 /\ px[1] * nb.den <= nb.x1
    /\ (px[2] + 1) * nb.den > nb.y0 /\ px[2] * nb.den <= nb.y1

HighlightDone ==
    op = "highlight" /\ pc = "returned" /\ wrote # <<>>

\* C10: in the composite highlight() saves, a pixel is the source pixel if
\* it lies inside the padded box of at least one detection and the blurred
\* pixel if it lies outside all of them.
C10Union ==
    HighlightDone =>
        \A px \in Pixels(img_size) :
            px \in highlighted <=>
                \E k \in 1..Len(results) :
                    InsidePadded(px, PaddedBox(results[k], padding_ratio, img_size))

\* C10 witness: two detections whose padded boxes overlap, neither inside
\* the other, and a pixel outside both
C10Witness ==
    /\ HighlightDone
    /\ Len(results) = 2
    /\ LET A == RectPixels(PaddedBox(results[1], padding_ratio, img_size), img_size)
           B == RectPixels(PaddedBox(results[2], padding_ratio, img_size), img_size)
       IN  /\ A \cap B # {}
           /\ A \ B # {}
           /\ B \ A # {}
           /\ Pixels(img_size) \ (A \cup B) # {}

-----------------------------------------------------------------------------
(* Results and files *)

\* C4: with zero detections square() returns None and writes no file, for
\* every category; and square() never returns an empty list: it returns
\* None or a non-empty list of paths.
C4NoEmptySuccess ==
    (op = "square" /\ pc = "returned") =>
        /\ results = <<>> =>
               ret.kind = "None" /\ wrote = <<>> /\ files = {img_path}
        /\ \/ ret.kind = "None"
           \/ ret.kind = "list" /\ Len(ret.paths) > 0

\* C4 witness: square() has returned for a supported category and no
\* detections
C4Witness ==
    /\ op = "square" /\ pc = "returned"
    /\ type = "feet" /\ results = <<>>
    /\ ret.kind = "None"

\* C5: with zero detections mask() and highlight() return the source path
\* and leave the files on disk as they were; a call that writes a file
\* returns a path that is not the source path.
C5NoOp ==
    op \in {"mask", "highlight"} =>
        /\ results = <<>> =>
               /\ pc # "raised"
               /\ wrote = <<>> /\ files = {img_path}
               /\ pc = "returned" => ret = PathRet(img_path)
        /\ (pc = "returned" /\ wrote # <<>>) =>
               /\ ret.kind = "path"
               /\ ret.paths[1] # img_path
               /\ ret.paths[1] \in files

\* C5 witness: mask() has returned the source path for no detections,
\* the source being an earlier output of mask()
C5Witness ==
    /\ op = "mask" /\ pc = "returned" /\ results = <<>>
    /\ type \in GenSquareType
    /\ img_path.dir = OutputDir
    /\ ret = PathRet(img_path)

\* C6 (as stated): a detection of square() whose square_size is <= 0 is
\* skipped (no file written, no path appended, the other detections still
\* processed), and square() returns None when every detection is skipped.
C6Original ==
    op = "square" =>
        LET skipped == {k \in 1..Len(results) :
                            SquareSize(results[k], padding_ratio, img_size) <= 0}
        IN  /\ \A k \in skipped :
                   /\ SquarePath(img_path, type, k - 1) \notin Range(wrote)
                   /\ SquarePath(img_path, type, k - 1) \notin Range(result_paths)
            /\ pc # "raised"
            /\ (pc = "returned" /\ skipped = 1..Len(results)) => ret.kind = "None"

\* C9 (as stated): each operation with at least one detection creates the
\* output directory before its first write; no operation saves into a
\* directory that does not exist.
C9Original ==
    /\ err # "FileNotFoundError"
    /\ (pc = "returned" /\ results # <<>> /\ type \in GenSquareType) => dir_exists

====
